---- MODULE Spec2Model ----
(***************************************************************************)
(* Load-aware resource allocation scorer                                   *)
(* (plugin/LoadAware/metrics_obtain.go).                                   *)
(*                                                                         *)
(* Three specifications over one set of variables:                         *)
(*   ResolverSpec  the two resolver functions applied to bounded inputs    *)
(*   Spec          concurrent calls of resourceAllocationScorer.score      *)
(*   LiveSpec      Spec with weak fairness on the scorer's own steps       *)
(***************************************************************************)
EXTENDS Integers, Sequences, FiniteSets, TLC

VARIABLES
    resourceToWeightMap,         \* r.resourceToWeightMap
    metricsClient,               \* r.metricsClient # nil
    scorer,                      \* r.scorer: the ranking function selected
    defaultResourcesToWeightMap, \* the package-level default table
    snapshot,                    \* node name -> *framework.NodeInfo
    calls,                       \* one record per concurrent call of score
    probeNode,                   \* ResolverSpec: the NodeInfo the resolver is applied to
    probe                        \* ResolverSpec: the last application and what it returned

vars == <<resourceToWeightMap, metricsClient, scorer, defaultResourcesToWeightMap,
          snapshot, calls, probeNode, probe>>

----------------------------------------------------------------------------
(* Bounds *)

\* largest requested / pod-count quantity of a node drawn for the resolver
MaxQty == 1

\* largest usage reading drawn for the resolver
MaxUsage == 1

----------------------------------------------------------------------------
(* Resource names *)

ResourceCPU == "cpu"

ResourceMemory == "memory"

ResourcePodNum == "podNum"

ResourceEphemeralStorage == "ephemeral-storage"

\* an extended resource a node may advertise
ResourceGPU == "example.com/gpu"

\* an extended resource no node advertises
ResourceFoo == "gpu.example.com/foo"

\* a name that is neither a known dimension nor a scalar resource name
ResourceBogus == "bogus"

Resources ==
    {ResourceCPU, ResourceMemory, ResourcePodNum, ResourceEphemeralStorage,
     ResourceGPU, ResourceFoo, ResourceBogus}

\* schedutil.IsScalarResourceName on the names above: the two domain-prefixed
\* names are extended resources, "bogus" (no domain prefix) is not.
IsScalarResourceName(resource) == resource \in {ResourceGPU, ResourceFoo}

\* the empty resourceToValueMap / ScalarResources map
EmptyMap == [d \in {} |-> 0]

\* Go map read m[k]: the zero value for an absent key
MapGet(m, k) == IF k \in DOMAIN m THEN m[k] ELSE 0

----------------------------------------------------------------------------
(* Node snapshots: the fields of framework.NodeInfo the resolver reads.     *)
(* The framework accumulates only MilliCPU and Memory into                  *)
(* NonZeroRequested; its EphemeralStorage stays 0 and its ScalarResources   *)
(* stays empty.                                                             *)

MkNodeInfo(hasNode, alloc, reqEph, reqScalar, nzCPU, nzMem, pods) ==
    [ hasNode          |-> hasNode,
      Allocatable      |-> alloc,
      Requested        |-> [EphemeralStorage |-> reqEph, ScalarResources |-> reqScalar],
      NonZeroRequested |-> [MilliCPU |-> nzCPU, Memory |-> nzMem,
                            EphemeralStorage |-> 0, ScalarResources |-> EmptyMap],
      Pods             |-> pods ]

\* a node advertising every dimension, each with its own capacity
AllocFull ==
    [ MilliCPU |-> 4, Memory |-> 8, EphemeralStorage |-> 6, AllowedPodNumber |-> 5,
      ScalarResources |-> (ResourceGPU :> 2) ]

\* a node with no extended resources
AllocPlain ==
    [ MilliCPU |-> 4, Memory |-> 4, EphemeralStorage |-> 4, AllowedPodNumber |-> 3,
      ScalarResources |-> EmptyMap ]

\* a node with no capacity at all
AllocNone ==
    [ MilliCPU |-> 0, Memory |-> 0, EphemeralStorage |-> 0, AllowedPodNumber |-> 0,
      ScalarResources |-> EmptyMap ]

Qty == 0..MaxQty

ScalarRequests == {EmptyMap} \cup {(ResourceGPU :> v) : v \in Qty}

\* the node snapshots the resolver is applied to in ResolverSpec
NodeInfos ==
    { MkNodeInfo(TRUE, a, re, rs, nc, nm, p) :
        a \in {AllocFull, AllocPlain, AllocNone}, re \in Qty, rs \in ScalarRequests,
        nc \in Qty, nm \in Qty, p \in Qty }

----------------------------------------------------------------------------
(* Telemetry responses: the (nodeMetrics, err) pair returned by             *)
(* NodeMetricses().Get.  cpu is Usage.Cpu().MilliValue(), memory is         *)
(* Usage.Memory().Value().                                                  *)

ErrResp == [err |-> TRUE, cpu |-> 0, memory |-> 0]

OkResp(cpu, memory) == [err |-> FALSE, cpu |-> cpu, memory |-> memory]

ProbeResponses == {ErrResp} \cup {OkResp(c, m) : c \in 0..MaxUsage, m \in 0..MaxUsage}

----------------------------------------------------------------------------
(* The resolver *)

\* mutant: an unsupported name is resolved like ephemeral storage
StaticUnknownAsStorage(nodeInfo, resource) ==
    CASE resource = ResourceCPU ->
           <<nodeInfo.Allocatable.MilliCPU, nodeInfo.NonZeroRequested.MilliCPU>>
      [] resource = ResourceMemory ->
           <<nodeInfo.Allocatable.Memory, nodeInfo.NonZeroRequested.Memory>>
      [] resource = ResourcePodNum ->
           <<nodeInfo.Allocatable.AllowedPodNumber, nodeInfo.Pods>>
      [] OTHER ->
           <<nodeInfo.Allocatable.EphemeralStorage,
             nodeInfo.NonZeroRequested.EphemeralStorage>>

calculateResourceAllocatableRequest(nodeInfo, resource) ==
    CASE resource = ResourceCPU ->
           <<nodeInfo.Allocatable.MilliCPU, nodeInfo.NonZeroRequested.MilliCPU>>
      [] resource = ResourceMemory ->
           <<nodeInfo.Allocatable.Memory, nodeInfo.NonZeroRequested.Memory>>
      [] resource = ResourcePodNum ->
           <<nodeInfo.Allocatable.AllowedPodNumber, nodeInfo.Pods>>
      [] resource = ResourceEphemeralStorage ->
           <<nodeInfo.Allocatable.EphemeralStorage,
             nodeInfo.NonZeroRequested.EphemeralStorage>>
      [] OTHER ->
           IF IsScalarResourceName(resource)
           THEN <<MapGet(nodeInfo.Allocatable.ScalarResources, resource),
                  MapGet(nodeInfo.NonZeroRequested.ScalarResources, resource)>>
           ELSE <<0, 0>>

\* the switch taken once the telemetry query has succeeded
MeasuredSwitch(nodeInfo, resource, resp) ==
    CASE resource = ResourceCPU ->
           IF resp.cpu = 0
           THEN <<nodeInfo.Allocatable.MilliCPU, nodeInfo.NonZeroRequested.MilliCPU>>
           ELSE <<nodeInfo.Allocatable.MilliCPU, resp.cpu>>
      [] resource = ResourceMemory ->
           IF resp.memory = 0
           THEN <<nodeInfo.Allocatable.Memory, nodeInfo.NonZeroRequested.Memory>>
           ELSE <<nodeInfo.Allocatable.Memory, resp.memory>>
      [] resource = ResourcePodNum ->
           <<nodeInfo.Allocatable.AllowedPodNumber, nodeInfo.Pods>>
      [] resource = ResourceEphemeralStorage ->
           <<nodeInfo.Allocatable.EphemeralStorage, nodeInfo.Requested.EphemeralStorage>>
      [] OTHER ->
           IF IsScalarResourceName(resource)
           THEN <<MapGet(nodeInfo.Allocatable.ScalarResources, resource),
                  MapGet(nodeInfo.Requested.ScalarResources, resource)>>
           ELSE <<0, 0>>

\* mutant: a failed query is not handled, the switch reads the empty metrics object
CostIgnoringError(client, nodeInfo, resource, resp) ==
    IF ~client
    THEN calculateResourceAllocatableRequest(nodeInfo, resource)
    ELSE MeasuredSwitch(nodeInfo, resource, IF resp.err THEN OkResp(0, 0) ELSE resp)

\* mutant: the zero-usage checks are missing
CostWithoutZeroCheck(client, nodeInfo, resource, resp) ==
    IF ~client \/ resp.err
    THEN calculateResourceAllocatableRequest(nodeInfo, resource)
    ELSE CASE resource = ResourceCPU -> <<nodeInfo.Allocatable.MilliCPU, resp.cpu>>
           [] resource = ResourceMemory -> <<nodeInfo.Allocatable.Memory, resp.memory>>
           [] OTHER -> MeasuredSwitch(nodeInfo, resource, resp)

\* client: r.metricsClient # nil; resp: what the Get call returns (read only
\* when client holds)
calculateResourceAllocatableCost(client, nodeInfo, resource, resp) ==
    IF ~client
    THEN calculateResourceAllocatableRequest(nodeInfo, resource)
    ELSE IF resp.err
         THEN calculateResourceAllocatableRequest(nodeInfo, resource)
         ELSE MeasuredSwitch(nodeInfo, resource, resp)

----------------------------------------------------------------------------
(* ResolverSpec: the resolver applied to every bounded input *)

NoProbe ==
    [ applied |-> FALSE, resource |-> ResourceCPU, client |-> FALSE, resp |-> ErrResp,
      pair |-> <<0, 0>>, static |-> <<0, 0>> ]

Applied(client, resource, resp) ==
    [ applied  |-> TRUE, resource |-> resource, client |-> client, resp |-> resp,
      pair     |-> calculateResourceAllocatableCost(client, probeNode, resource, resp),
      static   |-> calculateResourceAllocatableRequest(probeNode, resource) ]

ResolveWithoutClient ==
    /\ \E resource \in Resources : probe' = Applied(FALSE, resource, ErrResp)
    /\ UNCHANGED <<resourceToWeightMap, metricsClient, scorer,
                   defaultResourcesToWeightMap, snapshot, calls, probeNode>>

ResolveWithClient ==
    /\ \E resource \in Resources, resp \in ProbeResponses :
           probe' = Applied(TRUE, resource, resp)
    /\ UNCHANGED <<resourceToWeightMap, metricsClient, scorer,
                   defaultResourcesToWeightMap, snapshot, calls, probeNode>>

----------------------------------------------------------------------------
(* The scorer instance *)

NilMap == [isNil |-> TRUE, weights |-> EmptyMap]

WeightMap(weights) == [isNil |-> FALSE, weights |-> weights]

\* {memory: 1, cpu: 1 << 20, podNum: 1}
DefaultTable ==
    WeightMap((ResourceMemory :> 1) @@ (ResourceCPU :> 1048576) @@ (ResourcePodNum :> 1))

MaxNodeScore == 100

RECURSIVE WeightedSum(_, _, _)
\* sum over the dimensions ds of values[d] * weights[d]
WeightedSum(ds, weights, values) ==
    IF ds = {} THEN 0
    ELSE LET d == CHOOSE x \in ds : TRUE
         IN  MapGet(values, d) * weights[d] + WeightedSum(ds \ {d}, weights, values)

Clamp(x) == IF x < 0 THEN 0 ELSE IF x > MaxNodeScore THEN MaxNodeScore ELSE x

\* the ranking function: Least favours low weighted utilisation, Most high;
\* a weighted allocatable of 0 counts as utilisation 0
resourceScorer(mode, weightMap, requested, allocatable) ==
    LET wc   == WeightedSum(DOMAIN weightMap.weights, weightMap.weights, requested)
        wa   == WeightedSum(DOMAIN weightMap.weights, weightMap.weights, allocatable)
        used == IF wa = 0 THEN 0 ELSE (MaxNodeScore * wc) \div wa
    IN  IF mode = "Least" THEN Clamp(MaxNodeScore - used) ELSE Clamp(used)

----------------------------------------------------------------------------
(* Calls of score *)

Calls == {"a", "b"}

NodeNames == {"n1", "n2", "gone"}

\* the snapshots handed to score; "gone" is a snapshot whose Node() is nil
SnapshotTable ==
    [ n \in NodeNames |->
        CASE n = "n1" -> MkNodeInfo(TRUE, AllocFull, 3, (ResourceGPU :> 1), 2, 5, 2)
          [] n = "n2" -> MkNodeInfo(TRUE, AllocPlain, 1, EmptyMap, 1, 1, 1)
          [] OTHER    -> MkNodeInfo(FALSE, AllocNone, 0, EmptyMap, 0, 0, 0) ]

\* what one telemetry query may return during a call of score: a failure, or
\* a reading that is zero for one dimension, or for none
ScoreResponses == {ErrResp, OkResp(0, 3), OkResp(3, 0), OkResp(3, 3)}

MkScorer(weightMap, client, mode) ==
    [resourceToWeightMap |-> weightMap, metricsClient |-> client, scorer |-> mode]

CPUMemory == WeightMap((ResourceCPU :> 2) @@ (ResourceMemory :> 1))

CPUPods == WeightMap((ResourceCPU :> 1) @@ (ResourcePodNum :> 1))

StorageGPU == WeightMap((ResourceEphemeralStorage :> 1) @@ (ResourceGPU :> 1))

FooBogus == WeightMap((ResourceFoo :> 1) @@ (ResourceBogus :> 1))

\* the scorer instances score is called on: every weight map without a
\* metrics client, and the maps of at most two dimensions with one
Scorers ==
    { MkScorer(w, FALSE, m) :
        w \in {NilMap, WeightMap(EmptyMap), DefaultTable, CPUMemory, CPUPods,
               StorageGPU, FooBogus},
        m \in {"Least", "Most"} }
    \cup
    { MkScorer(w, TRUE, m) :
        w \in {NilMap, WeightMap(EmptyMap), CPUMemory, CPUPods, StorageGPU, FooBogus},
        m \in {"Least", "Most"} }

Success == "Success"

IdleCall ==
    [ pc |-> "idle", node |-> "gone", todo |-> {}, cur |-> "",
      cost |-> EmptyMap, allocatable |-> EmptyMap,
      responses |-> [d \in {} |-> ErrResp], queries |-> <<>>,
      score |-> 0, status |-> "" ]

\* score, up to the two maps being made
scoreEntry(call, nodeInfo, weightMap) ==
    IF ~nodeInfo.hasNode
    THEN [call EXCEPT !.pc = "done", !.score = 0, !.status = "node not found"]
    ELSE IF weightMap.isNil
         THEN [call EXCEPT !.pc = "done", !.score = 0, !.status = "resources not found"]
         ELSE [call EXCEPT !.pc = "loop", !.todo = DOMAIN weightMap.weights]

\* mutant: the map is made anew in every iteration
storePairFreshMap(call, resource, pair) ==
    [call EXCEPT !.pc = "loop", !.cur = "", !.todo = @ \ {resource},
                 !.allocatable = (resource :> pair[1]) @@ @,
                 !.cost = (resource :> pair[2])]

\* allocatable[resource], cost[resource] = pair
storePair(call, resource, pair) ==
    [call EXCEPT !.pc = "loop", !.cur = "", !.todo = @ \ {resource},
                 !.allocatable = (resource :> pair[1]) @@ @,
                 !.cost = (resource :> pair[2]) @@ @]

\* mutant: only the dimensions that use the reading are queried
issuesQueryWhenUsed(client, resource) ==
    client /\ resource \in {ResourceCPU, ResourceMemory}

\* whether resolving a dimension issues the telemetry query
issuesQuery(client, resource) == client

\* mutant: a failed query ends the call with an error status
queryReturnFatal(call, nodeInfo, resp) ==
    IF resp.err
    THEN [call EXCEPT !.pc = "done", !.score = 0, !.status = "metrics unavailable",
                      !.responses = (call.cur :> resp) @@ @]
    ELSE storePair([call EXCEPT !.responses = (call.cur :> resp) @@ @], call.cur,
                   calculateResourceAllocatableCost(TRUE, nodeInfo, call.cur, resp))

\* the Get call returns resp and the dimension is resolved
queryReturn(call, nodeInfo, resp) ==
    storePair([call EXCEPT !.responses = (call.cur :> resp) @@ @], call.cur,
              calculateResourceAllocatableCost(TRUE, nodeInfo, call.cur, resp))

\* score, after the loop
scoreReturn(call, mode, weightMap) ==
    [call EXCEPT !.pc = "done", !.status = Success,
                 !.score = resourceScorer(mode, weightMap, call.cost, call.allocatable)]

\* mutant: cost and allocatable are one pair of maps shared by all calls
commitShared(cs, c, call) ==
    [x \in Calls |->
        IF x = c THEN call
        ELSE [cs[x] EXCEPT !.cost = call.cost, !.allocatable = call.allocatable]]

\* cost and allocatable are locals of the call
commit(cs, c, call) == [cs EXCEPT ![c] = call]

Config == <<resourceToWeightMap, metricsClient, scorer, defaultResourcesToWeightMap,
            snapshot, probeNode, probe>>

ScoreBegin(c) ==
    /\ calls[c].pc = "idle"
    /\ \E n \in NodeNames :
          calls' = commit(calls, c,
                     scoreEntry([calls[c] EXCEPT !.node = n], snapshot[n],
                                resourceToWeightMap))
    /\ UNCHANGED Config

ResolveStatic(c) ==
    /\ calls[c].pc = "loop"
    /\ \E resource \in calls[c].todo :
          /\ ~issuesQuery(metricsClient, resource)
          /\ calls' = commit(calls, c,
                        storePair(calls[c], resource,
                          calculateResourceAllocatableCost(FALSE,
                            snapshot[calls[c].node], resource, ErrResp)))
    /\ UNCHANGED Config

IssueQuery(c) ==
    /\ calls[c].pc = "loop"
    /\ \E resource \in calls[c].todo :
          /\ issuesQuery(metricsClient, resource)
          /\ calls' = commit(calls, c,
                        [calls[c] EXCEPT !.pc = "waiting", !.cur = resource,
                                         !.queries = Append(@, resource)])
    /\ UNCHANGED Config

QueryReturn(c) ==
    /\ calls[c].pc = "waiting"
    /\ \E resp \in ScoreResponses :
          calls' = commit(calls, c, queryReturn(calls[c], snapshot[calls[c].node], resp))
    /\ UNCHANGED Config

ScoreEnd(c) ==
    /\ calls[c].pc = "loop"
    /\ calls[c].todo = {}
    /\ calls' = commit(calls, c, scoreReturn(calls[c], scorer, resourceToWeightMap))
    /\ UNCHANGED Config

----------------------------------------------------------------------------
(* Specifications *)

ResolverInit ==
    /\ probeNode \in NodeInfos
    /\ probe = NoProbe
    /\ resourceToWeightMap = DefaultTable
    /\ metricsClient = TRUE
    /\ scorer = "Least"
    /\ defaultResourcesToWeightMap = DefaultTable
    /\ snapshot = SnapshotTable
    /\ calls = [c \in Calls |-> IdleCall]

ResolverNext == ResolveWithoutClient \/ ResolveWithClient

ResolverSpec == ResolverInit /\ [][ResolverNext]_vars

Init ==
    /\ \E r \in Scorers :
          /\ resourceToWeightMap = r.resourceToWeightMap
          /\ metricsClient = r.metricsClient
          /\ scorer = r.scorer
    /\ defaultResourcesToWeightMap = DefaultTable
    /\ snapshot = SnapshotTable
    /\ calls = [c \in Calls |-> IdleCall]
    /\ probeNode = SnapshotTable["n1"]
    /\ probe = NoProbe

ScoreStep(c) == ResolveStatic(c) \/ IssueQuery(c) \/ ScoreEnd(c)

Next == \E c \in Calls : ScoreBegin(c) \/ ScoreStep(c) \/ QueryReturn(c)

Spec == Init /\ [][Next]_vars

\* the scorer's own steps are taken when enabled; nothing makes the metrics
\* backend answer
LiveSpec == Init /\ [][Next]_vars /\ \A c \in Calls : WF_vars(ScoreStep(c))

----------------------------------------------------------------------------
(* Properties of the resolver (ResolverSpec) *)

\* C1: with a metrics client configured and the query failing, the resolver
\* returns, for every node and dimension, exactly the pair of the static path.
C1_ErrorFallsBackToStatic ==
    (probe.applied /\ probe.client /\ probe.resp.err) => probe.pair = probe.static

\* a failed query for ephemeral storage on a node with storage requested
C1_Witness ==
    /\ probe.applied /\ probe.client /\ probe.resp.err
    /\ probe.resource = ResourceEphemeralStorage
    /\ probeNode.Requested.EphemeralStorage > 0
    /\ probe.pair = probe.static

\* C3: after a successful query, a reading of 0 for CPU (memory) yields the
\* static pair (allocatable, non-zero-requested); any other reading yields
\* (allocatable, reading).
C3_ZeroReadingFallsBack ==
    (probe.applied /\ probe.client /\ ~probe.resp.err) =>
        /\ probe.resource = ResourceCPU =>
              IF probe.resp.cpu = 0
              THEN /\ probe.pair = probe.static
                   /\ probe.pair = <<probeNode.Allocatable.MilliCPU,
                                     probeNode.NonZeroRequested.MilliCPU>>
              ELSE probe.pair = <<probeNode.Allocatable.MilliCPU, probe.resp.cpu>>
        /\ probe.resource = ResourceMemory =>
              IF probe.resp.memory = 0
              THEN /\ probe.pair = probe.static
                   /\ probe.pair = <<probeNode.Allocatable.Memory,
                                     probeNode.NonZeroRequested.Memory>>
              ELSE probe.pair = <<probeNode.Allocatable.Memory, probe.resp.memory>>

\* a zero CPU reading beside a non-zero memory reading, on a node with CPU requested
C3_Witness ==
    /\ probe.applied /\ probe.client /\ ~probe.resp.err
    /\ probe.resource = ResourceCPU
    /\ probe.resp.cpu = 0 /\ probe.resp.memory > 0
    /\ probeNode.NonZeroRequested.MilliCPU > 0
    /\ probe.pair = <<probeNode.Allocatable.MilliCPU, probeNode.NonZeroRequested.MilliCPU>>

\* C5: for pods and for ephemeral storage the resolved pair is the same with
\* no metrics client, with a failed query and with a successful query of any
\* reading.
C5_NoTelemetryVariant ==
    (probe.applied /\ probe.resource \in {ResourcePodNum, ResourceEphemeralStorage}) =>
        \A client \in BOOLEAN, resp \in ProbeResponses :
            calculateResourceAllocatableCost(client, probeNode, probe.resource, resp)
                = probe.pair

----------------------------------------------------------------------------
(* Properties of score (Spec, LiveSpec) *)

\* the response a finished call received for dimension d (none without a query)
ResponseOf(call, d) == IF d \in DOMAIN call.responses THEN call.responses[d] ELSE ErrResp

\* the pair the resolver yields for d given the call's node and d's own response
ResolvedPair(call, d) ==
    calculateResourceAllocatableCost(metricsClient, snapshot[call.node], d,
                                     ResponseOf(call, d))

ResolvedAllocatable(call) ==
    [d \in DOMAIN resourceToWeightMap.weights |-> ResolvedPair(call, d)[1]]

ResolvedCost(call) ==
    [d \in DOMAIN resourceToWeightMap.weights |-> ResolvedPair(call, d)[2]]

\* what a call returns when it runs alone on its node with its responses
ScoreAlone(call) ==
    IF ~snapshot[call.node].hasNode THEN <<0, "node not found">>
    ELSE IF resourceToWeightMap.isNil THEN <<0, "resources not found">>
    ELSE <<resourceScorer(scorer, resourceToWeightMap, ResolvedCost(call),
                          ResolvedAllocatable(call)), Success>>

Done(c) == calls[c].pc = "done"

\* C2: a call on a snapshot without a node, or with a weight map of no
\* dimensions, ends with an error status.
C2_MisconfigurationIsAnError ==
    \A c \in Calls :
        (/\ Done(c)
         /\ \/ ~snapshot[calls[c].node].hasNode
            \/ DOMAIN resourceToWeightMap.weights = {})
        => calls[c].status # Success

\* C4: a call with a node present and a weight map configured ends with the
\* success status and the ranking function's value on the resolved maps,
\* whatever its telemetry queries returned.
C4_TelemetryFailureNotSurfaced ==
    \A c \in Calls :
        (Done(c) /\ snapshot[calls[c].node].hasNode /\ ~resourceToWeightMap.isNil) =>
            /\ calls[c].status = Success
            /\ calls[c].score =
                  resourceScorer(scorer, resourceToWeightMap, ResolvedCost(calls[c]),
                                 ResolvedAllocatable(calls[c]))

\* a finished call one of whose queries failed and another succeeded
C4_Witness ==
    \E c \in Calls :
        /\ Done(c) /\ calls[c].status = Success
        /\ \E d, e \in DOMAIN calls[c].responses :
              calls[c].responses[d].err /\ ~calls[c].responses[e].err

\* a dimension the node does not support: an unknown name, or a scalar
\* resource name absent from the node's scalar-resource maps
Unsupported(nodeInfo, d) ==
    /\ d \notin {ResourceCPU, ResourceMemory, ResourcePodNum, ResourceEphemeralStorage}
    /\ IsScalarResourceName(d) =>
          /\ d \notin DOMAIN nodeInfo.Allocatable.ScalarResources
          /\ d \notin DOMAIN nodeInfo.Requested.ScalarResources
          /\ d \notin DOMAIN nodeInfo.NonZeroRequested.ScalarResources

\* C6: an unsupported dimension is entered as 0 in both maps, on the static
\* and on the telemetry path, and the call still ends with the success status.
C6_UnsupportedDimensionIsZero ==
    \A c \in Calls :
        \A d \in DOMAIN calls[c].cost :
            Unsupported(snapshot[calls[c].node], d) =>
                /\ calls[c].cost[d] = 0
                /\ calls[c].allocatable[d] = 0
                /\ Done(c) => calls[c].status = Success

\* a finished call that queried successfully for an unknown name and for an
\* absent scalar resource
C6_Witness ==
    \E c \in Calls :
        /\ Done(c) /\ calls[c].status = Success
        /\ DOMAIN calls[c].responses = {ResourceFoo, ResourceBogus}
        /\ \A d \in {ResourceFoo, ResourceBogus} :
              ~calls[c].responses[d].err /\ calls[c].cost[d] = 0

\* C7: two calls on the same node that received the same response for every
\* dimension return the same score and status, in whatever order each
\* iterated the weight map.
C7_Deterministic ==
    \A c1, c2 \in Calls :
        (/\ Done(c1) /\ Done(c2)
         /\ calls[c1].node = calls[c2].node
         /\ calls[c1].responses = calls[c2].responses)
        => /\ calls[c1].score = calls[c2].score
           /\ calls[c1].status = calls[c2].status

\* two finished calls with the same inputs that iterated in different orders
C7_Witness ==
    /\ Done("a") /\ Done("b")
    /\ calls["a"].node = calls["b"].node
    /\ calls["a"].status = Success
    /\ calls["a"].responses = calls["b"].responses
    /\ calls["a"].queries # calls["b"].queries
    /\ \E d \in DOMAIN calls["a"].responses : ~calls["a"].responses[d].err
    /\ calls["a"].score = calls["b"].score

\* C8: no step of score changes the weight map, the scoring function, the
\* default table or a snapshot; a step changes the record of one call only;
\* and a call ends with what it returns when run alone.
C8_StatelessReentrant ==
    [][ /\ resourceToWeightMap' = resourceToWeightMap
        /\ scorer' = scorer
        /\ metricsClient' = metricsClient
        /\ defaultResourcesToWeightMap' = defaultResourcesToWeightMap
        /\ snapshot' = snapshot
        /\ \A c \in Calls :
              /\ calls'[c] # calls[c] => \A o \in Calls \ {c} : calls'[o] = calls[o]
              /\ calls'[c].pc = "done" =>
                    <<calls'[c].score, calls'[c].status>> = ScoreAlone(calls'[c]) ]_vars

\* two calls on different nodes in flight at once, each with entries of its own
C8_Witness ==
    /\ calls["a"].pc = "waiting" /\ calls["b"].pc = "waiting"
    /\ calls["a"].node # calls["b"].node
    /\ calls["a"].cost # EmptyMap /\ calls["b"].cost # EmptyMap
    /\ calls["a"].cost # calls["b"].cost

\* C9: every call of score that has started returns, even when the metrics
\* backend never answers.
C9_ScoreReturns ==
    \A c \in Calls : (calls[c].pc \in {"loop", "waiting"}) ~> Done(c)

\* C10: with a metrics client, a finished call has issued exactly one query per
\* dimension of the weight map, and each dimension's pair is the resolver's
\* pair for that dimension's own response.
C10_OneQueryPerDimension ==
    \A c \in Calls :
        (Done(c) /\ calls[c].status = Success /\ metricsClient) =>
            /\ Len(calls[c].queries) = Cardinality(DOMAIN resourceToWeightMap.weights)
            /\ {calls[c].queries[i] : i \in 1..Len(calls[c].queries)}
                  = DOMAIN resourceToWeightMap.weights
            /\ \A d \in DOMAIN resourceToWeightMap.weights :
                  <<calls[c].allocatable[d], calls[c].cost[d]>> = ResolvedPair(calls[c], d)

\* one call holding a measured CPU cost beside a fallback memory cost
C10_Witness ==
    \E c \in Calls :
        /\ Done(c) /\ metricsClient
        /\ DOMAIN calls[c].responses = {ResourceCPU, ResourceMemory}
        /\ ~calls[c].responses[ResourceCPU].err
        /\ calls[c].responses[ResourceMemory].err
        /\ calls[c].cost[ResourceCPU] = calls[c].responses[ResourceCPU].cpu
        /\ calls[c].cost[ResourceCPU] # snapshot[calls[c].node].NonZeroRequested.MilliCPU
        /\ calls[c].cost[ResourceMemory] = snapshot[calls[c].node].NonZeroRequested.Memory

====
